---- MODULE Spec2Model ----
(***************************************************************************)
(* FACO ETL: the orchestrator (src/src/core/orchestrator.py) driving the   *)
(* extractor (src/src/etl/extractor.py), the transformer                   *)
(* (src/src/etl/transformer.py) and the loader (src/src/etl/loader.py)     *)
(* against a warehouse that holds the source tables and the output tables. *)
(*                                                                         *)
(* One behaviour is one ETLOrchestrator with one ETLConfig, on which run() *)
(* is called up to MaxRuns times.  run() is split into the steps of        *)
(* _run_real_etl so that the order of the collaborator calls is visible.   *)
(***************************************************************************)
EXTENDS Integers, Sequences, FiniteSets, Bags, TLC

\* ------------------------------------------------------------------ bounds

\* Number of customer ids (cod_luna) the warehouse knows.
NCodLunas == 3

\* Number of calendar periods (ARCHIVO) of the target month.
NPeriods == 3

\* How many times run() is called on the orchestrator.
MaxRuns == 2

\* Collaborator faults (a query or a load job raising) in one behaviour.
MaxFaults == 1

\* Calls of the methods other than run() in a behaviour.
MaxCalls == 2

\* A configured batch_size smaller than the number of customer ids.
SmallBatch == 2

\* Years of dates the calendar functions are called on.
NYears == 1

\* The largest n get_nth_business_day_of_month is asked for.
MaxNth == 28

\* Interaction events of one run, both channels together.
MaxEventos == 3

\* ------------------------------------------------------- program constants

\* ETLConfig.batch_size default (BATCH_SIZE).
DefaultBatchSize == 10000

\* The cap of extract_gestiones_by_period: min(self.config.batch_size, 50000).
BatchCap == 50000

\* What _mock_etl_process returns.
MockRecords == 42000

\* The year of the default mes_vigencia, the first year of the model's dates.
FirstYear == 2025

CodLunas == 1..NCodLunas
Periods == 1..NPeriods

\* The ARCHIVO of the assignment row of customer id c.
ArchivoOf(c) == ((c - 1) % NPeriods) + 1

Null == "None"

\* ---------------------------------------------------------------- ETLConfig

\* mes_vigencia, as mes_vigencia.split("-") sees it: the parts between the
\* dashes, each either the text of an integer or not.
IntPart(n) == [isInt |-> TRUE, val |-> n]
TextPart == [isInt |-> FALSE, val |-> 0]

Mes_2025_06 == <<IntPart(2025), IntPart(6)>>
Mes_2025_05 == <<IntPart(2025), IntPart(5)>>
Mes_2025_13 == <<IntPart(2025), IntPart(13)>>
Mes_invalid_date == <<TextPart, TextPart>>

\* The countries the holidays package knows, as far as the model needs them.
KnownCountries == {"PE", "CO"}

DefaultConfig ==
    [ project_id       |-> "mibot-222814",
      dataset_id       |-> "BI_USA",
      mes_vigencia     |-> Mes_2025_06,
      estado_vigencia  |-> "abierto",
      country_code     |-> "PE",
      overwrite_tables |-> TRUE,
      batch_size       |-> DefaultBatchSize,
      dry_run          |-> FALSE,
      has_credentials  |-> TRUE ]

\* The configurations a behaviour starts from: the defaults with every
\* combination of the run flags, and the defaults with one field changed.
ConfigInputs ==
    { [DefaultConfig EXCEPT !.dry_run = d, !.overwrite_tables = o, !.batch_size = b] :
        d \in BOOLEAN, o \in BOOLEAN, b \in {SmallBatch, DefaultBatchSize} }
    \cup { [DefaultConfig EXCEPT !.dry_run = d, !.project_id = ""] : d \in BOOLEAN }
    \cup { [DefaultConfig EXCEPT !.dry_run = d, !.dataset_id = ""] : d \in BOOLEAN }
    \cup { [DefaultConfig EXCEPT !.dry_run = d, !.mes_vigencia = m] :
             d \in BOOLEAN, m \in {Mes_2025_13, Mes_invalid_date} }
    \cup { [DefaultConfig EXCEPT !.dry_run = d, !.estado_vigencia = e] :
             d \in BOOLEAN, e \in {"finalizado", "cerrado"} }
    \cup { [DefaultConfig EXCEPT !.dry_run = d, !.country_code = c] :
             d \in BOOLEAN, c \in {"CO", "XX"} }
    \cup { [DefaultConfig EXCEPT !.dry_run = d, !.has_credentials = FALSE] : d \in BOOLEAN }

\* ETLConfig.validate: the message of the ValueError it raises, or Null.
validate(c) ==
    IF c.project_id = "" THEN "GOOGLE_CLOUD_PROJECT is required"
    ELSE IF c.dataset_id = "" THEN "BIGQUERY_DATASET is required"
    ELSE IF ~(Len(c.mes_vigencia) = 2 /\ \A i \in 1..2 : c.mes_vigencia[i].isInt)
         THEN "mes_vigencia must be in YYYY-MM format"
    ELSE IF c.estado_vigencia \notin {"abierto", "finalizado"}
         THEN "estado_vigencia must be 'abierto' or 'finalizado'"
    ELSE IF ~c.dry_run /\ ~c.has_credentials
         THEN "Google Cloud credentials not found"
    ELSE Null

\* ETLConfig.output_tables, in the order of the dictionary transform_all_data
\* returns.
OutputTables == <<"agregada", "comparativas", "primera_vez", "base_cartera">>
TableTypes == {OutputTables[i] : i \in 1..Len(OutputTables)}

\* The views _create_optimized_views creates.
ViewNames == {"looker_studio_main", "looker_studio_summary", "looker_studio_trends"}

\* ------------------------------------------------------------- warehouse

\* The assignment table: one row per account, in the order the query returns
\* them.  Two rows may carry the same cod_luna (a customer with two accounts).
AsigRow(c) == [archivo |-> ArchivoOf(c), cod_luna |-> c]

\* The query has no ORDER BY: every rotation of the ids is a possible order.
\* One more input has a customer twice.
AsigInputs ==
    { [i \in 1..NCodLunas |-> AsigRow(((i + k - 1) % NCodLunas) + 1)] : k \in 0..(NCodLunas - 1) }
    \cup { [i \in 1..NCodLunas |-> AsigRow(IF i = 1 THEN 1 ELSE i - 1)] }

\* The interaction tables: per channel, the customer ids that have an event in
\* the management window (one event per customer and channel).
Canales == {"BOT", "HUMANO"}
GestInputs == [Canales -> {{}, CodLunas}]

\* The accounts with a debt record and with a payment record.
SrcDeuda == CodLunas
SrcPagos == CodLunas

Min(a, b) == IF a < b THEN a ELSE b

RECURSIVE Unique(_)
\* Series.unique(): the distinct values in order of first appearance.
Unique(s) ==
    IF s = <<>> THEN <<>>
    ELSE LET init == Unique(SubSeq(s, 1, Len(s) - 1))
             x == s[Len(s)]
         IN  IF \E i \in 1..Len(init) : init[i] = x THEN init ELSE Append(init, x)

Range(s) == {s[i] : i \in 1..Len(s)}

\* A month the calendar query can be asked for: DATE('<mes>-01') is a date.
IsCalendarMonth(m) ==
    /\ Len(m) = 2
    /\ \A i \in 1..2 : m[i].isInt
    /\ m[2].val \in 1..12

\* extract_calendario: the ARCHIVOs of the month, FECHA_ASIGNACION DESC; an
\* error of the query is caught and gives an empty frame.  The periods of the
\* warehouse are those of 2025-06 and are all open.
extract_calendario(c, fails) ==
    IF fails \/ ~IsCalendarMonth(c.mes_vigencia) THEN <<>>
    ELSE IF c.mes_vigencia = Mes_2025_06 /\ c.estado_vigencia = "abierto"
         THEN [i \in 1..NPeriods |-> NPeriods + 1 - i]
         ELSE <<>>

\* extract_asignacion: the rows whose archivo is in the calendar.
extract_asignacion(asignacion, archivos_calendario, fails) ==
    IF archivos_calendario = <<>> THEN <<>>
    ELSE IF fails THEN <<>>
    ELSE SelectSeq(asignacion, LAMBDA r : r.archivo \in Range(archivos_calendario))

\* The ids extract_gestiones_by_period asks the interaction tables for.
cod_lunas_batch(c, cod_lunas) ==
    SubSeq(cod_lunas, 1, Min(Min(c.batch_size, BatchCap), Len(cod_lunas)))

\* extract_gestiones_by_period: per channel the ids with an event, among the
\* ids asked for; an error of either query gives two empty frames.
extract_gestiones_by_period(c, gest, cod_lunas, fails) ==
    IF cod_lunas = <<>> \/ fails THEN [ch \in Canales |-> {}]
    ELSE [ch \in Canales |-> gest[ch] \cap Range(cod_lunas_batch(c, cod_lunas))]

\* extract_financial_data: (trandeuda, pagos); an error gives two empty frames.
extract_financial_data(archivos_calendario, fails) ==
    IF archivos_calendario = <<>> \/ fails
    THEN [trandeuda |-> {}, pagos |-> {}]
    ELSE [trandeuda |-> SrcDeuda, pagos |-> SrcPagos]

\* The empty dictionary extract_all_data returns when it aborts.
RawEmpty ==
    [ calendario |-> <<>>, asignacion |-> <<>>, consultados |-> <<>>,
      voicebot |-> {}, mibotair |-> {}, trandeuda |-> {}, pagos |-> {} ]

\* extract_all_data.  faults names the queries that raise.  consultados is the
\* id list of the interaction queries (not a frame: kept to state what was
\* asked for).
extract_all_data(c, s, faults) ==
    LET df_calendario == extract_calendario(c, "calendario" \in faults)
        df_asignacion == extract_asignacion(s.asignacion, df_calendario,
                                            "asignacion" \in faults)
        cod_lunas_unicos == Unique([i \in 1..Len(df_asignacion) |-> df_asignacion[i].cod_luna])
        gestiones == extract_gestiones_by_period(c, s.gest, cod_lunas_unicos,
                                                 "gestiones" \in faults)
        financial == extract_financial_data(df_calendario, "financial" \in faults)
    IN  IF df_calendario = <<>> \/ df_asignacion = <<>> THEN RawEmpty
        ELSE [ calendario  |-> df_calendario,
               asignacion  |-> df_asignacion,
               consultados |-> cod_lunas_batch(c, cod_lunas_unicos),
               voicebot    |-> gestiones["BOT"],
               mibotair    |-> gestiones["HUMANO"],
               trandeuda   |-> financial.trandeuda,
               pagos       |-> financial.pagos ]

\* "not raw_data or all(df.empty for df in raw_data.values())"
\* A check for no data that never finds the frames empty.
AllEmptyRaw_never(raw) == FALSE

AllEmptyRaw(raw) ==
    /\ raw.calendario = <<>> /\ raw.asignacion = <<>>
    /\ raw.voicebot = {} /\ raw.mibotair = {}
    /\ raw.trandeuda = {} /\ raw.pagos = {}

\* ----------------------------------------------------------- transformer

\* An output row, reduced to the columns that tell rows apart here: the period
\* (FECHA_ASIGNACION of the ARCHIVO), the channel, the customer and the
\* assignment row it was joined to.
Row(p, canal, c, fila) == [archivo |-> p, CANAL |-> canal, cod_luna |-> c, fila |-> fila]

\* create_base_dimensions: the left merge keeps one row per assignment row.
create_base_dimensions(df_asignacion) == df_asignacion

\* process_gestiones_with_first_time_tracking: the inner join of the events of
\* one channel with the base rows on cod_luna.
process_gestiones_with_first_time_tracking(df_gestiones, df_base, canal) ==
    { Row(df_base[i].archivo, canal, df_base[i].cod_luna, i) :
        i \in {j \in 1..Len(df_base) : df_base[j].cod_luna \in df_gestiones} }

\* aggregate_by_dimensions: one row per value of the grouping key.
aggregate_by_dimensions(df_gestiones) ==
    { Row(r.archivo, r.CANAL, 0, 0) : r \in df_gestiones }

\* create_period_comparisons: a row is built only when
\* get_same_business_day_previous_month gives a date.
create_period_comparisons(df_current, comparable) ==
    IF comparable THEN df_current ELSE {}

\* _create_first_time_tracking_table: the rows flagged es_primera_vez_cliente;
\* with one event per customer and channel every joined row is the first.
create_first_time_tracking_table(df_gestiones) == df_gestiones

\* _create_base_portfolio_metrics: one row per portfolio group of df_base.
create_base_portfolio_metrics(df_base) ==
    { Row(df_base[i].archivo, "", 0, 0) : i \in 1..Len(df_base) }

\* The empty dictionary transform_all_data returns when there is nothing to do.
TransformedEmpty == [t \in TableTypes |-> {}]

\* transform_all_data.
transform_all_data(raw, comparable) ==
    IF AllEmptyRaw(raw) THEN TransformedEmpty
    ELSE
    LET df_base == create_base_dimensions(raw.asignacion)
        df_bot_enriched ==
            IF raw.voicebot # {}
            THEN process_gestiones_with_first_time_tracking(raw.voicebot, df_base, "BOT")
            ELSE {}
        df_humano_enriched ==
            IF raw.mibotair # {}
            THEN process_gestiones_with_first_time_tracking(raw.mibotair, df_base, "HUMANO")
            ELSE {}
        df_all_gestiones == df_bot_enriched \cup df_humano_enriched
        df_agregada == aggregate_by_dimensions(df_all_gestiones)
    IN  IF df_all_gestiones = {} THEN TransformedEmpty
        ELSE [t \in TableTypes |->
                CASE t = "agregada" -> df_agregada
                  [] t = "comparativas" -> create_period_comparisons(df_agregada, comparable)
                  [] t = "primera_vez" -> create_first_time_tracking_table(df_all_gestiones)
                  [] t = "base_cartera" -> create_base_portfolio_metrics(df_base)]

\* "not transformed_data or all(df.empty for df in transformed_data.values())"
AllEmptyTransformed(td) == \A t \in TableTypes : td[t] = {}

\* {table: len(df) for table, df in ...items()}
Summary(td) == [t \in TableTypes |-> Cardinality(td[t])]

\* ------------------------------------------------------------------ loader

\* A row as _prepare_dataframe_for_bq hands it to the load job: the frame's
\* row with the metadata column ETL_MES_PROCESO = config.mes_vigencia.
Prepared(c, df) == { [mes |-> c.mes_vigencia, fila |-> r] : r \in df }

\* The rows an earlier month's processing left in every output table.
OldRow == [mes |-> Mes_2025_05, fila |-> Row(1, "", 0, 0)]
SinkInit == [t \in TableTypes |-> SetToBag({OldRow})]

\* A load job configuration that appends whatever overwrite_tables says.
write_disposition_append(c) == "WRITE_APPEND"

\* _get_load_job_config: the write disposition of the load job.
write_disposition(c) ==
    IF c.overwrite_tables THEN "WRITE_TRUNCATE" ELSE "WRITE_APPEND"

\* load_table_from_dataframe into table_id (the whole table, no partition
\* decorator) under a write disposition: WRITE_TRUNCATE replaces the table's
\* data, WRITE_APPEND adds to it.
load_table_from_dataframe(tabla, rows, disposition) ==
    IF disposition = "WRITE_TRUNCATE" THEN SetToBag(rows)
    ELSE tabla (+) SetToBag(rows)

\* A loader that never takes the dry-run branch.
simulates_never(c) == FALSE

\* The test of _load_table, _create_optimized_views and
\* create_table_descriptions that makes a dry run send nothing.
simulates(c) == c.dry_run

\* validate_data_quality: EMPTY for an empty frame; the frames of the model
\* carry no null key, negative count or ratio out of range, hence PASS.
validate_data_quality(td) ==
    [t \in TableTypes |->
        IF td[t] = {} THEN [status |-> "EMPTY", row_count |-> 0]
        ELSE [status |-> "PASS", row_count |-> Cardinality(td[t])]]

\* ------------------------------------------------------------ business days

\* datetime.date, and the dates of the years of the model.
Date(y, m, d) == [year |-> y, month |-> m, day |-> d]

IsLeap(y) == (y % 4 = 0) /\ ((y % 100 # 0) \/ (y % 400 = 0))

DaysInMonth(y, m) ==
    IF m = 2 THEN (IF IsLeap(y) THEN 29 ELSE 28)
    ELSE IF m \in {4, 6, 9, 11} THEN 30 ELSE 31

Years == FirstYear..(FirstYear + NYears - 1)
Fechas == UNION { { Date(y, m, d) : d \in 1..DaysInMonth(y, m) } : y \in Years, m \in 1..12 }

\* The value a function returning Optional[date] gives for None.
NoDate == Date(0, 0, 0)

RECURSIVE DaysBeforeMonth(_, _)
DaysBeforeMonth(y, m) ==
    IF m = 1 THEN 0 ELSE DaysBeforeMonth(y, m - 1) + DaysInMonth(y, m - 1)

\* date.toordinal(): the 1st of January of year 1 is day 1.
toordinal(d) ==
    LET y == d.year - 1
    IN  y * 365 + (y \div 4) - (y \div 100) + (y \div 400)
        + DaysBeforeMonth(d.year, d.month) + d.day

\* date.weekday(): Monday = 0, Sunday = 6; worked out once for the days of
\* the years a call of the model can reach.
weekdays ==
    [d \in UNION { { Date(y, m, k) : k \in 1..DaysInMonth(y, m) }
                   : y \in (FirstYear - 1)..(FirstYear + NYears), m \in 1..12 }
        |-> (toordinal(d) + 6) % 7]

weekday(d) == weekdays[d]

\* a < b and a <= b on dates.
DateLT(a, b) ==
    \/ a.year < b.year
    \/ a.year = b.year /\ a.month < b.month
    \/ a.year = b.year /\ a.month = b.month /\ a.day < b.day
DateLE(a, b) == a = b \/ DateLT(a, b)

\* d + timedelta(days=1) and d - timedelta(days=1).
NextDay(d) ==
    IF d.day < DaysInMonth(d.year, d.month) THEN Date(d.year, d.month, d.day + 1)
    ELSE IF d.month < 12 THEN Date(d.year, d.month + 1, 1)
    ELSE Date(d.year + 1, 1, 1)

PrevDay(d) ==
    IF d.day > 1 THEN Date(d.year, d.month, d.day - 1)
    ELSE IF d.month > 1 THEN Date(d.year, d.month - 1, DaysInMonth(d.year, d.month - 1))
    ELSE Date(d.year - 1, 12, 31)

RECURSIVE MinusDays(_, _)
MinusDays(d, k) == IF k = 0 THEN d ELSE MinusDays(PrevDay(d), k - 1)

\* PeruHolidaysCalendar._easter.
easter(year) ==
    LET a == year % 19
        b == year \div 100
        c == year % 100
        d == b \div 4
        e == b % 4
        f == (b + 8) \div 25
        g == (b - f + 1) \div 3
        h == (19 * a + b - d - g + 15) % 30
        i == c \div 4
        k == c % 4
        l == (32 + 2 * e + 2 * i - h - k) % 7
        m == (a + 11 * h + 22 * l) \div 451
        month == (h + l - 7 * m + 114) \div 31
        day == ((h + l - 7 * m + 114) % 31) + 1
    IN  Date(year, month, day)

\* PeruHolidaysCalendar._populate: the holidays of one year.
populate(year) ==
    { Date(year, 1, 1), Date(year, 5, 1), Date(year, 7, 28), Date(year, 7, 29),
      Date(year, 8, 30), Date(year, 10, 8), Date(year, 11, 1), Date(year, 12, 8),
      Date(year, 12, 25),
      MinusDays(easter(year), 3), MinusDays(easter(year), 2) }

\* self.holidays_calendar, for the years a lookup of the model can name.
holidays_calendar ==
    [year \in (FirstYear - 1)..(FirstYear + NYears) |-> populate(year)]

\* "check_date in self.holidays_calendar": the year of the date is populated
\* on the lookup.
InHolidaysCalendar(d) == d \in holidays_calendar[d.year]

\* BusinessDaysProcessor.is_business_day.
is_business_day(sat, check_date) ==
    IF weekday(check_date) = 6 THEN FALSE
    ELSE IF weekday(check_date) = 5 THEN sat
    ELSE IF InHolidaysCalendar(check_date) THEN FALSE
    ELSE TRUE

\* The loop of calculate_business_day_of_month from current_date on.
RECURSIVE CountThrough(_, _, _)
CountThrough(sat, current_date, target_date) ==
    IF ~DateLE(current_date, target_date) THEN 0
    ELSE (IF is_business_day(sat, current_date) THEN 1 ELSE 0)
         + CountThrough(sat, NextDay(current_date), target_date)

\* A count that does not test the target date first.
calculate_counting_any_day(sat, target_date) ==
    CountThrough(sat, Date(target_date.year, target_date.month, 1), target_date)

\* BusinessDaysProcessor.calculate_business_day_of_month.
calculate_business_day_of_month(sat, target_date) ==
    IF ~is_business_day(sat, target_date) THEN 0
    ELSE CountThrough(sat, Date(target_date.year, target_date.month, 1), target_date)

\* "next_month - timedelta(days=1)": the last day of the month.
EndOfMonth(year, month) ==
    PrevDay(IF month = 12 THEN Date(year + 1, 1, 1) ELSE Date(year, month + 1, 1))

\* The loop of get_nth_business_day_of_month from current_date on, count
\* business days counted before it.
RECURSIVE NthFrom(_, _, _, _, _)
NthFrom(sat, current_date, end_date, count, n) ==
    IF ~DateLE(current_date, end_date) THEN NoDate
    ELSE IF is_business_day(sat, current_date)
         THEN IF count + 1 = n THEN current_date
              ELSE NthFrom(sat, NextDay(current_date), end_date, count + 1, n)
         ELSE NthFrom(sat, NextDay(current_date), end_date, count, n)

\* A search whose counter starts at 1.
get_nth_counting_from_one(sat, year, month, n) ==
    NthFrom(sat, Date(year, month, 1), EndOfMonth(year, month), 1, n)

\* BusinessDaysProcessor.get_nth_business_day_of_month.
get_nth_business_day_of_month(sat, year, month, n) ==
    NthFrom(sat, Date(year, month, 1), EndOfMonth(year, month), 0, n)

\* The loop of get_last_business_day_of_month, backwards from current_date.
RECURSIVE LastFrom(_, _, _)
LastFrom(sat, current_date, month) ==
    IF current_date.month # month THEN NoDate
    ELSE IF is_business_day(sat, current_date) THEN current_date
    ELSE LastFrom(sat, PrevDay(current_date), month)

\* BusinessDaysProcessor.get_last_business_day_of_month.
get_last_business_day_of_month(sat, year, month) ==
    LastFrom(sat, EndOfMonth(year, month), month)

\* An alignment that gives None when the previous month is too short.
get_same_without_fallback(sat, target_date) ==
    LET business_day_number == calculate_business_day_of_month(sat, target_date)
        prev_year == IF target_date.month = 1 THEN target_date.year - 1 ELSE target_date.year
        prev_month == IF target_date.month = 1 THEN 12 ELSE target_date.month - 1
    IN  IF business_day_number = 0 THEN NoDate
        ELSE get_nth_business_day_of_month(sat, prev_year, prev_month, business_day_number)

\* BusinessDaysProcessor.get_same_business_day_previous_month.
get_same_business_day_previous_month(sat, target_date) ==
    LET business_day_number == calculate_business_day_of_month(sat, target_date)
        prev_year == IF target_date.month = 1 THEN target_date.year - 1 ELSE target_date.year
        prev_month == IF target_date.month = 1 THEN 12 ELSE target_date.month - 1
        comparison_date ==
            get_nth_business_day_of_month(sat, prev_year, prev_month, business_day_number)
    IN  IF business_day_number = 0 THEN NoDate
        ELSE IF comparison_date # NoDate THEN comparison_date
        ELSE get_last_business_day_of_month(sat, prev_year, prev_month)

\* The loop of get_business_days_in_month from current_date on.
RECURSIVE DaysFrom(_, _, _)
DaysFrom(sat, current_date, end_date) ==
    IF ~DateLE(current_date, end_date) THEN <<>>
    ELSE (IF is_business_day(sat, current_date) THEN <<current_date>> ELSE <<>>)
         \o DaysFrom(sat, NextDay(current_date), end_date)

\* A listing that starts on the 2nd.
get_business_days_from_second(sat, year, month) ==
    DaysFrom(sat, Date(year, month, 2), EndOfMonth(year, month))

\* BusinessDaysProcessor.get_business_days_in_month.
get_business_days_in_month(sat, year, month) ==
    DaysFrom(sat, Date(year, month, 1), EndOfMonth(year, month))

\* ------------------------------------------- transformer, event by event

\* The customers of the assignments, the hours of the service day an event
\* can carry, and the outcomes (management) of an event.
Clientes == {1, 2}
Horas == {10, 11, 14}
Managements == {"CONTACTO_EFECTIVO", "NO_CONTESTA"}

\* management.isin(['CONTACTO_EFECTIVO', 'Contacto_Efectivo'])
IsEffective(management) == management \in {"CONTACTO_EFECTIVO", "Contacto_Efectivo"}

\* A row of voicebot or mibotair, reduced to the columns the flags and the
\* counts read.
Evento(c, h, m) == [cod_luna |-> c, date |-> h, management |-> m]
Eventos == { Evento(c, h, m) : c \in Clientes, h \in Horas, m \in Managements }

\* The frames an interaction query can return: at most n rows, ORDER BY date
\* DESC.
Frames(n) ==
    UNION { { s \in [1..k -> Eventos] : \A i \in 1..(k - 1) : s[i].date >= s[i + 1].date }
            : k \in 0..n }

\* df_base for the customers that have an assignment: one assignment each,
\* all of portfolio A.
BaseDimensions(assigned) ==
    [c \in assigned |-> [cod_luna |-> c, cliente |-> c, CARTERA |-> "A"]]

\* The monto_compromiso column of a mibotair row: the rows of an effective
\* contact carry an amount, the others carry NULL.
monto_compromiso(e) ==
    IF IsEffective(e.management) THEN [isna |-> FALSE, val |-> 100]
    ELSE [isna |-> TRUE, val |-> 0]

\* Series.fillna(value).
fillna(x, value) == IF x.isna THEN [isna |-> FALSE, val |-> value] ELSE x

\* df_gestiones.merge(df_base, on='cod_luna', how='inner') and the
\* channel-specific columns; orden is the position of the event in the
\* extracted frame.
enrich(df_gestiones, df_base, canal) ==
    { [ orden |-> i,
        cliente |-> df_base[df_gestiones[i].cod_luna].cliente,
        CARTERA |-> df_base[df_gestiones[i].cod_luna].CARTERA,
        CANAL |-> canal,
        OPERADOR |-> IF canal = "BOT" THEN "SISTEMA_BOT" ELSE "SIN_AGENTE",
        GRUPO_RESPUESTA |-> df_gestiones[i].management,
        management |-> df_gestiones[i].management,
        monto_compromiso |->
            IF canal = "BOT" THEN [isna |-> FALSE, val |-> 0]
            ELSE fillna(monto_compromiso(df_gestiones[i]), 0),
        date |-> df_gestiones[i].date ]
      : i \in { j \in 1..Len(df_gestiones) : df_gestiones[j].cod_luna \in DOMAIN df_base } }

\* df.groupby(dims)['date'].transform('min') == df['date'], for the row r of
\* df; dims is the set of the grouping columns.
IsGroupMin(df, r, dims) ==
    \A x \in df : (\A c \in dims : x[c] = r[c]) => r.date <= x.date

\* _mark_first_time_interactions: the flags of the dimension combinations
\* and the general flag.
mark_first_time_interactions(df) ==
    { [ row |-> r,
        es_primera_vez_cliente_cartera_canal |->
            IsGroupMin(df, r, {"cliente", "CARTERA", "CANAL"}),
        es_primera_vez_cliente_cartera_canal_operador |->
            IsGroupMin(df, r, {"cliente", "CARTERA", "CANAL", "OPERADOR"}),
        es_primera_vez_cliente_canal |->
            IsGroupMin(df, r, {"cliente", "CANAL"}),
        es_primera_vez_cliente_grupo_respuesta |->
            IsGroupMin(df, r, {"cliente", "GRUPO_RESPUESTA"}),
        es_primera_vez_cliente |->
            IsGroupMin(df, r, {"cliente"}) ] : r \in df }

\* A marking that flags no row.
es_primer_contacto_efectivo_never(df, r) == FALSE

\* _mark_first_effective_contact, for the row r of df: when the frame has an
\* effective contact, the rows of a customer who has one are compared with the
\* customer's minimal date; every other row gets False.
es_primer_contacto_efectivo(df, r) ==
    IF \A x \in df : ~IsEffective(x.management) THEN FALSE
    ELSE IF \E x \in df : x.cliente = r.cliente /\ IsEffective(x.management)
         THEN IsGroupMin(df, r, {"cliente"})
         ELSE FALSE

\* process_gestiones_with_first_time_tracking for the frame of one channel:
\* the enriched rows with their flags.
process_gestiones(df_gestiones, df_base, canal) ==
    LET df_enriched == enrich(df_gestiones, df_base, canal)
    IN  { [ row |-> f.row,
            es_primera_vez_cliente_cartera_canal |-> f.es_primera_vez_cliente_cartera_canal,
            es_primera_vez_cliente_cartera_canal_operador |->
                f.es_primera_vez_cliente_cartera_canal_operador,
            es_primera_vez_cliente_canal |-> f.es_primera_vez_cliente_canal,
            es_primera_vez_cliente_grupo_respuesta |-> f.es_primera_vez_cliente_grupo_respuesta,
            es_primera_vez_cliente |-> f.es_primera_vez_cliente,
            es_primer_contacto_efectivo |-> es_primer_contacto_efectivo(df_enriched, f.row) ]
          : f \in mark_first_time_interactions(df_enriched) }

\* Steps 2 to 4 of transform_all_data: each channel processed on its own, then
\* pd.concat.
combine_gestiones(voicebot, mibotair, df_base) ==
    process_gestiones(voicebot, df_base, "BOT")
        \cup process_gestiones(mibotair, df_base, "HUMANO")

\* The value of aggregation_dimensions of a row, as far as rows differ in it.
GroupKey(f) ==
    [ CARTERA |-> f.row.CARTERA, CANAL |-> f.row.CANAL, OPERADOR |-> f.row.OPERADOR,
      GRUPO_RESPUESTA |-> f.row.GRUPO_RESPUESTA ]

\* A count that takes the effective rows for the interactions.
count_effective_only(group) ==
    Cardinality({ f \in group : IsEffective(f.row.management) })

\* 'cod_luna': 'count'.
count(group) == Cardinality(group)

\* 'monto_compromiso': 'sum' over the rows of a group.
RECURSIVE sum_monto(_)
sum_monto(group) ==
    IF group = {} THEN 0
    ELSE LET f == CHOOSE x \in group : TRUE
         IN  (IF f.row.monto_compromiso.isna THEN 0 ELSE f.row.monto_compromiso.val)
                 + sum_monto(group \ {f})

\* grouped.agg(...) with the column mapping: one row per group.
grouped_agg(df_gestiones_enriched) ==
    { LET group == { f \in df_gestiones_enriched : GroupKey(f) = k }
      IN  [ key |-> k,
            total_interacciones |-> count(group),
            clientes_unicos_contactados |-> Cardinality({ f.row.cliente : f \in group }),
            contactos_efectivos |->
                Cardinality({ f \in group : IsEffective(f.row.management) }),
            primera_vez_contactados |->
                Cardinality({ f \in group : f.es_primera_vez_cliente }),
            primera_vez_efectivos |->
                Cardinality({ f \in group : f.es_primer_contacto_efectivo }),
            primera_vez_cartera_canal |->
                Cardinality({ f \in group : f.es_primera_vez_cliente_cartera_canal }),
            monto_total_comprometido |-> sum_monto(group),
            cantidad_compromisos |->
                Cardinality({ f \in group : ~f.row.monto_compromiso.isna }) ]
      : k \in { GroupKey(f) : f \in df_gestiones_enriched } }

\* A get_comparison_periods_info that calls every date comparable.
get_comparison_periods_info_comparable(sat, target_date) ==
    [ es_dia_habil |-> is_business_day(sat, target_date),
      dia_habil_del_mes |-> calculate_business_day_of_month(sat, target_date),
      dias_habiles_mes_actual |->
          get_business_days_in_month(sat, target_date.year, target_date.month),
      fecha_comparacion_mes_anterior |->
          get_same_business_day_previous_month(sat, target_date),
      puede_comparar |-> TRUE ]

\* get_comparison_periods_info(target_date).
get_comparison_periods_info(sat, target_date) ==
    LET prev_month_date == get_same_business_day_previous_month(sat, target_date)
    IN  [ es_dia_habil |-> is_business_day(sat, target_date),
          dia_habil_del_mes |-> calculate_business_day_of_month(sat, target_date),
          dias_habiles_mes_actual |->
              get_business_days_in_month(sat, target_date.year, target_date.month),
          fecha_comparacion_mes_anterior |-> prev_month_date,
          puede_comparar |-> prev_month_date # NoDate ]

\* The days the events of a run are drawn from: a Thursday and the Sunday
\* after it.
ServiceDates == { Date(FirstYear, 6, 19), Date(FirstYear, 6, 22) }

\* What create_period_comparisons gets from self.business_days for a service
\* date, worked out once per date.
business_days_of ==
    [sat \in BOOLEAN, current_date \in ServiceDates |->
        [ prev_month_date |-> get_same_business_day_previous_month(sat, current_date),
          dia_habil_numero |-> calculate_business_day_of_month(sat, current_date),
          comparison_info |-> get_comparison_periods_info(sat, current_date) ]]

\* The loop of create_period_comparisons over the rows of df_current, whose
\* FECHA_SERVICIO is current_date: a row is appended only "if prev_month_date",
\* with the columns of get_comparison_periods_info written over its own.
df_comparisons(df_current, sat, current_date) ==
    LET b == business_days_of[sat, current_date]
    IN  IF b.prev_month_date # NoDate
        THEN { [ row |-> r,
                 fecha_actual |-> current_date,
                 fecha_comparacion |-> b.prev_month_date,
                 dia_habil_numero |-> b.dia_habil_numero,
                 fecha_comparacion_mes_anterior |->
                     b.comparison_info.fecha_comparacion_mes_anterior,
                 puede_comparar |-> b.comparison_info.puede_comparar ] : r \in df_current }
        ELSE {}

\* validate_data_quality for the table agregada: the key columns of the
\* model's rows are never null and its counts never negative; of the ratio
\* columns efectividad_canal and tasa_compromiso lie in [0, 1] and
\* ratio_primera_vez = primera_vez_contactados / clientes_unicos_contactados
\* may exceed 1.
issues(df) ==
    { "Porcentajes fuera de rango [0,1] en: ratio_primera_vez" : r \in
        { x \in df : x.primera_vez_contactados > x.clientes_unicos_contactados } }

\* ------------------------------------------- base dimensions of an assignment

\* A file name as the parts its underscores separate; str.upper() of a part.
upper(part) ==
    CASE part = "Cartera" -> "CARTERA"
      [] part = "Cobranding" -> "COBRANDING"
      [] part = "Gestion" -> "GESTION"
      [] part = "Temprana" -> "TEMPRANA"
      [] part = "Altas" -> "ALTAS"
      [] part = "Nuevas" -> "NUEVAS"
      [] part = "cuota" -> "CUOTA"
      [] part = "fija" -> "FIJA"
      [] part = "Other" -> "OTHER"
      [] part = "File" -> "FILE"
      [] part = "Name.txt" -> "NAME.TXT"
      [] part = "20250617.txt" -> "20250617.TXT"
      [] OTHER -> part

\* "marker in filename_upper": marker, cut at its underscores like the name,
\* lies somewhere in the name.  An empty first or last part of the marker
\* stands for a leading or trailing underscore and matches the end or the
\* start of any part; the parts of the model's names contain no marker
\* otherwise than whole.
Contains(filename_upper, marker) ==
    \E i \in 1..(Len(filename_upper) - Len(marker) + 1) :
        \A k \in 1..Len(marker) :
            marker[k] = "" \/ marker[k] = filename_upper[i + k - 1]

\* A missing value and a value of a column.
NaN == [isna |-> TRUE, val |-> <<>>]
Value(v) == [isna |-> FALSE, val |-> v]

\* _extract_cartera_type(filename).
extract_cartera_type(filename) ==
    IF filename.isna THEN "OTRAS"
    ELSE LET filename_upper == [i \in 1..Len(filename.val) |-> upper(filename.val[i])]
         IN  IF Contains(filename_upper, <<"TEMPRANA">>) THEN "TEMPRANA"
             ELSE IF Contains(filename_upper, <<"CF", "ANN">>)
                     \/ Contains(filename_upper, <<"CUOTA", "FIJA">>)
                  THEN "CUOTA_FIJA_ANUAL"
             ELSE IF Contains(filename_upper, <<"", "AN", "">>)
                     \/ Contains(filename_upper, <<"ALTAS", "NUEVAS">>)
                  THEN "ALTAS_NUEVAS"
             ELSE IF Contains(filename_upper, <<"COBRANDING">>) THEN "COBRANDING"
             ELSE "OTRAS"

\* _create_management_segment_safe for one row; cuota_fracc_act is NULL in the
\* rows of the model.
create_management_segment_safe(row) ==
    LET segment == IF row.tramo_gestion = Null THEN "" ELSE row.tramo_gestion
        fraccionado == IF row.fraccionamiento = "SI" THEN segment \o " - FRACCIONADO"
                       ELSE segment
    IN  IF fraccionado # "" THEN fraccionado ELSE "NO_ESPECIFICADO"

\* _calculate_recovery_objective(tramo_gestion), in hundredths.
calculate_recovery_objective(tramo_gestion) ==
    IF tramo_gestion = Null THEN 20
    ELSE CASE tramo_gestion = "AL VCTO" -> 15
           [] tramo_gestion = "ENTRE 4 Y 15D" -> 25
           [] tramo_gestion = "TEMPRANA" -> 20
           [] tramo_gestion = "TARDIA" -> 30
           [] OTHER -> 20

\* create_base_dimensions for one assignment row whose file is in the
\* calendar: CARTERA is set from the file name and then set again from the
\* management segment.
base_dimensions_row(row) ==
    LET cartera_type == extract_cartera_type(row.archivo)
        df_base_1 == [ archivo |-> row.archivo, cuenta |-> row.cuenta,
                       tramo_gestion |-> row.tramo_gestion, CARTERA |-> cartera_type ]
        df_base_2 == [df_base_1 EXCEPT !.CARTERA = create_management_segment_safe(row)]
    IN  [ archivo |-> df_base_2.archivo, cuenta |-> df_base_2.cuenta,
          CARTERA |-> df_base_2.CARTERA,
          OBJ_RECUPERO |-> calculate_recovery_objective(row.tramo_gestion) ]

\* The sum of column over the rows of a frame whose key column equals cuenta.
RECURSIVE sum_of(_, _, _, _)
sum_of(df, key, column, cuenta) ==
    IF df = <<>> THEN 0
    ELSE (IF Head(df)[key] = cuenta THEN Head(df)[column] ELSE 0)
             + sum_of(Tail(df), key, column, cuenta)

\* _create_base_portfolio_metrics for the one portfolio group of a base
\* row: a column that is never created is absent from the result, and
\* df_portfolio['monto_exigible'] of a frame without that column raises
\* KeyError.
create_base_portfolio_metrics_row(base, df_trandeuda, df_pagos) ==
    LET df_portfolio_1 == [ CARTERA |-> base.CARTERA, total_cod_lunas |-> 1 ]
        df_portfolio_2 ==
            IF df_trandeuda # <<>>
            THEN [ c \in DOMAIN df_portfolio_1 \cup {"monto_exigible"} |->
                     IF c = "monto_exigible"
                     THEN sum_of(df_trandeuda, "cod_cuenta", "monto_exigible", base.cuenta)
                     ELSE df_portfolio_1[c] ]
            ELSE df_portfolio_1
    IN  IF df_pagos = <<>> THEN [raised |-> Null, df |-> df_portfolio_2]
        ELSE IF "monto_exigible" \notin DOMAIN df_portfolio_2
        THEN [raised |-> "KeyError: 'monto_exigible'", df |-> df_portfolio_1]
        ELSE [ raised |-> Null,
               df |-> [ c \in DOMAIN df_portfolio_2 \cup {"monto_cancelado"} |->
                          IF c = "monto_cancelado"
                          THEN sum_of(df_pagos, "cod_sistema", "monto_cancelado", base.cuenta)
                          ELSE df_portfolio_2[c] ] ]

\* ------------------------------------------------------------ orchestrator

VARIABLES
    cfg,               \* self.config
    env,               \* the warehouse's source tables and the installation
    comp,              \* _extractor, _business_days, _transformer, _loader: set or not
    pc,                \* where run() is
    runNo,             \* calls of run() so far
    nFaults,           \* collaborator faults so far
    calls,             \* the collaborator calls of the current run, in order
    fallos,            \* what went wrong in the current run: [paso, periodo]
    raw_data, transformed_data, transform_summary, quality_report,
    load_results,      \* table type -> the string _load_table returned
    loadIdx,           \* position of load_all_tables' loop
    sink,              \* the output tables: table type -> bag of rows
    views,             \* the views that exist
    described,         \* the tables and views that carry a description
    result,            \* the ETLResult of the last run
    prevSink, prevLoad \* sink and load_results at the end of the run before

VARIABLES
    include_saturdays, \* BusinessDaysProcessor.include_saturdays
    llamada            \* the last call of a calendar function: [op, arg, ret]

VARIABLES
    df_voicebot,       \* the BOT events handed to the transformer
    df_mibotair,       \* the HUMANO events handed to the transformer
    df_all_gestiones,  \* the enriched, flagged rows of both channels
    df_agregada,       \* the rows of aggregate_by_dimensions
    tpc,               \* where the transformation of the events is
    df_base,           \* the base dimensions: customer -> its assignment
    FECHA_SERVICIO,    \* the day of the events
    df_comparativas,   \* the rows of create_period_comparisons
    quality_issues     \* the issues validate_data_quality reports for agregada

Transformacion == << df_voicebot, df_mibotair, df_all_gestiones, df_agregada, tpc,
                     df_base, FECHA_SERVICIO, df_comparativas, quality_issues >>

VARIABLES
    asignacion_row,    \* an assignment row handed to create_base_dimensions
    df_trandeuda,      \* the debt records handed to _create_base_portfolio_metrics
    df_pagos,          \* the payment records handed to it
    df_base_row,       \* the base dimensions of the assignment row
    df_base_cartera,   \* what _create_base_portfolio_metrics did: [raised, df]
    retorno,           \* the value a function of the row's columns returned
    dpc                \* where the processing of the assignment row is

Dimensiones == << asignacion_row, df_trandeuda, df_pagos, df_base_row, df_base_cartera,
                  retorno, dpc >>

VARIABLES
    metodo             \* the last call of a method other than run():
                       \* [n, op, initialized, returned]

\* The state of the components called on their own.
Funciones == << include_saturdays, llamada, Transformacion, Dimensiones, metodo >>

vars == << cfg, env, comp, pc, runNo, nFaults, calls, fallos, raw_data,
           transformed_data, transform_summary, quality_report, load_results,
           loadIdx, sink, views, described, result, prevSink, prevLoad,
           Funciones >>

NoComponents ==
    [_extractor |-> FALSE, _business_days |-> FALSE, _transformer |-> FALSE, _loader |-> FALSE]

NoResult == [success |-> FALSE, records_processed |-> 0, output_tables |-> {},
             data_quality_report |-> Null, error_message |-> Null, returned |-> FALSE]

NoLoad == [t \in TableTypes |-> Null]
NoSummary == [t \in TableTypes |-> 0]
NoQuality == [t \in TableTypes |-> [status |-> Null, row_count |-> 0]]

\* No calendar function has been called.
NoLlamada == [op |-> Null, arg |-> NoDate, n |-> 0,
              ret |-> [habil |-> FALSE, numero |-> 0, fecha |-> NoDate, dias |-> <<>>,
                       puede_comparar |-> FALSE]]

\* No event has been handed to the transformer.
NoEventos ==
    /\ df_voicebot = <<>>
    /\ df_mibotair = <<>>
    /\ df_all_gestiones = {}
    /\ df_agregada = {}
    /\ tpc = "idle"
    /\ df_base = BaseDimensions({})
    /\ FECHA_SERVICIO = NoDate
    /\ df_comparativas = {}
    /\ quality_issues = {}

\* No assignment row has been handed to the transformer.
NoDimensiones ==
    /\ asignacion_row = [archivo |-> NaN, tramo_gestion |-> Null, fraccionamiento |-> "NO",
                         cuenta |-> 0]
    /\ df_trandeuda = <<>>
    /\ df_pagos = <<>>
    /\ df_base_row = [archivo |-> NaN, cuenta |-> 0, CARTERA |-> Null, OBJ_RECUPERO |-> 0]
    /\ df_base_cartera = [raised |-> Null, df |-> [CARTERA |-> Null, total_cod_lunas |-> 0]]
    /\ retorno = [op |-> Null, cartera |-> Null, objetivo |-> 0]
    /\ dpc = "idle"

\* No method other than run() has been called.
NoMetodo == [n |-> 0, op |-> Null, initialized |-> Null, returned |-> Null]

\* ETLOrchestrator.__init__: no component yet, nothing run.
Idle ==
    /\ comp = NoComponents
    /\ pc = "idle"
    /\ runNo = 0
    /\ nFaults = 0
    /\ calls = <<>>
    /\ fallos = {}
    /\ raw_data = RawEmpty
    /\ transformed_data = TransformedEmpty
    /\ transform_summary = NoSummary
    /\ quality_report = NoQuality
    /\ load_results = NoLoad
    /\ loadIdx = 1
    /\ sink = SinkInit
    /\ views = {}
    /\ described = {}
    /\ result = NoResult
    /\ prevSink = SinkInit
    /\ prevLoad = NoLoad

\* ETLOrchestrator.__init__ on a validated-or-not configuration.
Init ==
    /\ cfg \in ConfigInputs
    /\ env \in [ asignacion : AsigInputs, gest : GestInputs,
                 comparable : BOOLEAN, importable : BOOLEAN ]
    /\ Idle
    /\ include_saturdays = FALSE
    /\ llamada = NoLlamada
    /\ NoEventos
    /\ NoDimensiones
    /\ metodo = NoMetodo

\* The except clause of run(): the failure result.
Failure(msg) ==
    [ success |-> FALSE, records_processed |-> 0, output_tables |-> {},
      data_quality_report |-> Null, error_message |-> msg, returned |-> TRUE ]

Fallo(paso, periodo) == [paso |-> paso, periodo |-> periodo]

CanFault == nFaults < MaxFaults

\* run() is called: config.validate() raises or not.
Run ==
    /\ pc \in {"idle", "done"}
    /\ runNo < MaxRuns
    /\ runNo' = runNo + 1
    /\ prevSink' = sink
    /\ prevLoad' = load_results
    /\ calls' = <<>>
    /\ raw_data' = RawEmpty
    /\ transformed_data' = TransformedEmpty
    /\ transform_summary' = NoSummary
    /\ quality_report' = NoQuality
    /\ load_results' = NoLoad
    /\ loadIdx' = 1
    /\ IF validate(cfg) # Null
       THEN /\ result' = Failure(validate(cfg))
            /\ fallos' = {Fallo("validate", 0)}
            /\ pc' = "done"
       ELSE /\ result' = NoResult
            /\ fallos' = {}
            /\ pc' = "init"
    /\ UNCHANGED << Funciones, cfg, env, comp, nFaults, sink, views, described >>

RunLocals == << raw_data, transformed_data, transform_summary, quality_report,
                load_results, loadIdx >>
Warehouse == << sink, views, described >>
History == << prevSink, prevLoad >>

\* An exception reaches the except clause of run().
Raise(paso, periodo, msg) ==
    /\ result' = Failure(msg)
    /\ fallos' = fallos \cup {Fallo(paso, periodo)}
    /\ pc' = "done"

\* _initialize_components, as run() calls it.
InitializeComponents ==
    /\ pc = "init"
    /\ UNCHANGED << Funciones, cfg, env, runNo, RunLocals, Warehouse, History >>
    /\ IF comp._extractor
       THEN \* "if self._extractor is None" is false: return True
            /\ pc' = "connectivity"
            /\ UNCHANGED << comp, nFaults, calls, fallos, result >>
       ELSE
       \/ \* the imports raise ImportError: return False
          /\ ~env.importable
          /\ pc' = "mock"
          /\ fallos' = fallos \cup {Fallo("import", 0)}
          /\ UNCHANGED << comp, nFaults, calls, result >>
       \/ \* BigQueryExtractor(config) raises
          /\ env.importable /\ CanFault
          /\ nFaults' = nFaults + 1
          /\ calls' = Append(calls, "BigQueryExtractor")
          /\ Raise("init", 0, "BigQueryExtractor failed")
          /\ UNCHANGED comp
       \/ \* BusinessDaysProcessor(config) raises: holidays.country_holidays
          \* knows no such country
          /\ env.importable /\ cfg.country_code \notin KnownCountries
          /\ comp' = [comp EXCEPT !._extractor = TRUE]
          /\ calls' = calls \o <<"BigQueryExtractor", "BusinessDaysProcessor">>
          /\ Raise("init", 0, "Country not available")
          /\ UNCHANGED nFaults
       \/ \* BigQueryLoader(config) raises
          /\ env.importable /\ cfg.country_code \in KnownCountries /\ CanFault
          /\ nFaults' = nFaults + 1
          /\ comp' = [comp EXCEPT !._extractor = TRUE, !._business_days = TRUE,
                                  !._transformer = TRUE]
          /\ calls' = calls \o <<"BigQueryExtractor", "BusinessDaysProcessor",
                                 "CobranzaTransformer", "BigQueryLoader">>
          /\ Raise("init", 0, "BigQueryLoader failed")
       \/ \* all four are constructed: return True
          /\ env.importable /\ cfg.country_code \in KnownCountries
          /\ comp' = [_extractor |-> TRUE, _business_days |-> TRUE,
                      _transformer |-> TRUE, _loader |-> TRUE]
          /\ calls' = calls \o <<"BigQueryExtractor", "BusinessDaysProcessor",
                                 "CobranzaTransformer", "BigQueryLoader">>
          /\ pc' = "connectivity"
          /\ UNCHANGED << nFaults, fallos, result >>

\* _run_mock_etl.
RunMockEtl ==
    /\ pc = "mock"
    /\ result' = [ success |-> TRUE, records_processed |-> MockRecords,
                   output_tables |-> TableTypes, data_quality_report |-> Null,
                   error_message |-> Null, returned |-> TRUE ]
    /\ pc' = "done"
    /\ UNCHANGED << Funciones, cfg, env, comp, runNo, nFaults, calls, fallos, RunLocals,
                    Warehouse, History >>

\* Step 1 of _run_real_etl: test_connectivity() catches the error of its
\* queries and returns False.
TestConnectivity ==
    /\ pc = "connectivity"
    /\ calls' = Append(calls, "test_connectivity")
    /\ UNCHANGED << Funciones, cfg, env, comp, runNo, RunLocals, Warehouse, History >>
    /\ \/ /\ pc' = "extract"
          /\ UNCHANGED << nFaults, fallos, result >>
       \/ /\ CanFault
          /\ nFaults' = nFaults + 1
          /\ Raise("connectivity", 0, "Error de conectividad con BigQuery")

ExtractQueries == {"calendario", "asignacion", "gestiones", "financial"}

\* Step 2: extract_all_data(), then the check for no data.
ExtractAllData ==
    /\ pc = "extract"
    /\ calls' = Append(calls, "extract_all_data")
    /\ \E faults \in SUBSET ExtractQueries :
         /\ nFaults + Cardinality(faults) <= MaxFaults
         /\ nFaults' = nFaults + Cardinality(faults)
         /\ LET raw == extract_all_data(cfg, env, faults)
            IN  /\ raw_data' = raw
                /\ IF AllEmptyRaw(raw)
                   THEN Raise("extract", 0, "No se encontraron datos para procesar")
                   ELSE /\ pc' = "transform"
                        /\ fallos' = fallos \cup {Fallo("extract", 0) : q \in faults}
                        /\ UNCHANGED result
    /\ UNCHANGED << Funciones, cfg, env, comp, runNo, transformed_data, transform_summary,
                    quality_report, load_results, loadIdx, Warehouse, History >>

\* The periods that have rows in the extracted assignments.
PeriodsOf(raw) == {raw.asignacion[i].archivo : i \in 1..Len(raw.asignacion)}

\* Step 3: transform_all_data(raw_data), then the check for no data.  The
\* transformation of the whole month is one call: the rows of one period
\* making it raise end the call.  self._transformer is None after an
\* initialisation that stopped before it: AttributeError.
TransformAllData ==
    /\ pc = "transform"
    /\ UNCHANGED << Funciones, cfg, env, comp, runNo, raw_data, quality_report, load_results,
                    loadIdx, Warehouse, History >>
    /\ \/ /\ ~comp._transformer
          /\ Raise("transform", 0, "'NoneType' object has no attribute 'transform_all_data'")
          /\ UNCHANGED << nFaults, calls, transformed_data, transform_summary >>
       \/ \E p \in PeriodsOf(raw_data) :
            /\ comp._transformer /\ CanFault
            /\ nFaults' = nFaults + 1
            /\ calls' = Append(calls, "transform_all_data")
            /\ Raise("transform", p, "transform_all_data failed")
            /\ UNCHANGED << transformed_data, transform_summary >>
       \/ LET td == transform_all_data(raw_data, env.comparable)
          IN  /\ comp._transformer
              /\ calls' = Append(calls, "transform_all_data")
              /\ transformed_data' = td
              /\ UNCHANGED nFaults
              /\ IF AllEmptyTransformed(td)
                 THEN /\ Raise("transform", 0, "La transformacion no genero datos validos")
                      /\ UNCHANGED transform_summary
                 ELSE /\ transform_summary' = Summary(td)
                      /\ pc' = "quality"
                      /\ UNCHANGED << fallos, result >>

\* Step 4: validate_data_quality(transformed_data), then the check for
\* critical issues.  self._loader is None after an initialisation that
\* stopped before it: AttributeError.
ValidateDataQuality ==
    /\ pc = "quality"
    /\ UNCHANGED << Funciones, cfg, env, comp, runNo, nFaults, raw_data, transformed_data,
                    transform_summary, load_results, loadIdx, Warehouse, History >>
    /\ IF ~comp._loader
       THEN /\ Raise("quality", 0, "'NoneType' object has no attribute 'validate_data_quality'")
            /\ UNCHANGED << calls, quality_report >>
       ELSE LET report == validate_data_quality(transformed_data)
                critical_issues == {t \in TableTypes : report[t].status = "FAIL"}
            IN  /\ calls' = Append(calls, "validate_data_quality")
                /\ quality_report' = report
                /\ IF critical_issues # {} /\ ~cfg.dry_run
                   THEN Raise("quality", 0, "Problemas criticos de calidad")
                   ELSE /\ pc' = "load"
                        /\ UNCHANGED << fallos, result >>

\* Step 5, one turn of the loop of load_all_tables: _load_table for the next
\* table type, whose error is caught and recorded.
LoadTable ==
    /\ pc = "load"
    /\ LET t == OutputTables[loadIdx]
           df == transformed_data[t]
       IN  \/ \* "if df.empty: continue"
              /\ df = {}
              /\ UNCHANGED << nFaults, calls, fallos, load_results, sink >>
           \/ \* dry run: nothing is sent
              /\ df # {} /\ simulates(cfg)
              /\ load_results' = [load_results EXCEPT ![t] = "DRY-RUN"]
              /\ UNCHANGED << nFaults, calls, fallos, sink >>
           \/ \* the load job succeeds
              /\ df # {} /\ ~simulates(cfg)
              /\ calls' = Append(calls, "load_table_from_dataframe")
              /\ sink' = [sink EXCEPT ![t] =
                            load_table_from_dataframe(sink[t], Prepared(cfg, df),
                                                      write_disposition(cfg))]
              /\ load_results' = [load_results EXCEPT ![t] = "SUCCESS"]
              /\ UNCHANGED << nFaults, fallos >>
           \/ \* the load job raises
              /\ df # {} /\ ~simulates(cfg) /\ CanFault
              /\ nFaults' = nFaults + 1
              /\ calls' = Append(calls, "load_table_from_dataframe")
              /\ load_results' = [load_results EXCEPT ![t] = "ERROR"]
              /\ fallos' = fallos \cup {Fallo("load", 0)}
              /\ UNCHANGED sink
    /\ IF loadIdx = Len(OutputTables)
       THEN pc' = "views" /\ UNCHANGED loadIdx
       ELSE pc' = "load" /\ loadIdx' = loadIdx + 1
    /\ UNCHANGED << Funciones, cfg, env, comp, runNo, raw_data, transformed_data,
                    transform_summary, quality_report, views, described, result,
                    History >>

\* The end of load_all_tables: _create_optimized_views, where the error of one
\* view is caught.
CreateOptimizedViews ==
    /\ pc = "views"
    /\ UNCHANGED << Funciones, cfg, env, comp, runNo, RunLocals, sink, described, result, History >>
    /\ pc' = IF cfg.dry_run THEN "metrics" ELSE "descriptions"
    /\ IF simulates(cfg)
       THEN UNCHANGED << nFaults, calls, fallos, views >>
       ELSE /\ calls' = Append(calls, "create_or_replace_view")
            /\ \E failing \in SUBSET ViewNames :
                 /\ nFaults + Cardinality(failing) <= MaxFaults
                 /\ nFaults' = nFaults + Cardinality(failing)
                 /\ views' = views \cup (ViewNames \ failing)
                 /\ fallos' = fallos \cup {Fallo("views", 0) : v \in failing}

\* Step 6, first half: create_table_descriptions, where the error of one
\* update is caught; a view that does not exist cannot be described.
CreateTableDescriptions ==
    /\ pc = "descriptions"
    /\ pc' = "optimize"
    /\ IF simulates(cfg)
       THEN UNCHANGED << nFaults, calls, fallos, described >>
       ELSE /\ calls' = Append(calls, "update_table")
            /\ \E failing \in SUBSET (TableTypes \cup views) :
                 /\ nFaults + Cardinality(failing) <= MaxFaults
                 /\ nFaults' = nFaults + Cardinality(failing)
                 /\ described' = described \cup ((TableTypes \cup views) \ failing)
                 /\ fallos' = fallos \cup {Fallo("descriptions", 0) : v \in failing}
    /\ UNCHANGED << Funciones, cfg, env, comp, runNo, RunLocals, sink, views, result, History >>

\* Step 6, second half: self._loader.optimize_for_looker_studio(), a method
\* BigQueryLoader does not have: AttributeError.
OptimizeForLookerStudio ==
    /\ pc = "optimize"
    /\ Raise("optimize", 0, "'BigQueryLoader' object has no attribute 'optimize_for_looker_studio'")
    /\ UNCHANGED << Funciones, cfg, env, comp, runNo, nFaults, calls, RunLocals, Warehouse, History >>

\* The rest of _run_real_etl: the metrics and the result.  load_results maps
\* each loaded table to a string; result.get('status') on a string raises
\* AttributeError.
Metrics ==
    /\ pc = "metrics"
    /\ IF \E t \in TableTypes : load_results[t] # Null
       THEN Raise("metrics", 0, "'str' object has no attribute 'get'")
       ELSE /\ result' = [ success |-> TRUE,
                           records_processed |->
                               Cardinality(UNION {transformed_data[t] \X {t} : t \in TableTypes}),
                           output_tables |-> {},
                           data_quality_report |-> quality_report,
                           error_message |-> Null, returned |-> TRUE ]
            /\ pc' = "done"
            /\ UNCHANGED fallos
    /\ UNCHANGED << Funciones, cfg, env, comp, runNo, nFaults, calls, RunLocals, Warehouse, History >>

Next ==
    \/ Run
    \/ InitializeComponents
    \/ RunMockEtl
    \/ TestConnectivity
    \/ ExtractAllData
    \/ TransformAllData
    \/ ValidateDataQuality
    \/ LoadTable
    \/ CreateOptimizedViews
    \/ CreateTableDescriptions
    \/ OptimizeForLookerStudio
    \/ Metrics

Spec == Init /\ [][Next]_vars

\* ------------------------------- the other methods of the orchestrator

\* run_data_preview(limit) is called with the default limit; the frames of
\* the model have fewer rows, so that df.head(limit) is the frame.
PreviewLimit == 100

\* _initialize_components, as a method other than run() calls it: outcome is
\* "True", "False" or "raised".  The faults of the constructors are not
\* counted here.
initialize_components(outcome) ==
    IF comp._extractor
    THEN \* "if self._extractor is None" is false: return True
         outcome = "True" /\ UNCHANGED comp
    ELSE
    \/ \* the imports raise ImportError: return False
       /\ ~env.importable
       /\ outcome = "False" /\ UNCHANGED comp
    \/ \* BigQueryExtractor(config) raises
       /\ env.importable
       /\ outcome = "raised" /\ UNCHANGED comp
    \/ \* BusinessDaysProcessor(config) raises
       /\ env.importable /\ cfg.country_code \notin KnownCountries
       /\ outcome = "raised"
       /\ comp' = [comp EXCEPT !._extractor = TRUE]
    \/ \* BigQueryLoader(config) raises
       /\ env.importable /\ cfg.country_code \in KnownCountries
       /\ outcome = "raised"
       /\ comp' = [comp EXCEPT !._extractor = TRUE, !._business_days = TRUE,
                               !._transformer = TRUE]
    \/ \* all four are constructed: return True
       /\ env.importable /\ cfg.country_code \in KnownCountries
       /\ outcome = "True"
       /\ comp' = [_extractor |-> TRUE, _business_days |-> TRUE,
                   _transformer |-> TRUE, _loader |-> TRUE]

\* What a method other than run() leaves alone.
MetodoFrame ==
    UNCHANGED << include_saturdays, llamada, Transformacion, Dimensiones, env, pc, runNo,
                 nFaults, calls, fallos, RunLocals, Warehouse, result, History >>

\* validate_connectivity(): the errors of its two tests are caught.
ValidateConnectivity ==
    /\ pc = "idle" /\ metodo.n < MaxCalls
    /\ MetodoFrame /\ UNCHANGED cfg
    /\ \E outcome \in {"True", "False", "raised"} :
         /\ initialize_components(outcome)
         /\ metodo' = [ n |-> metodo.n + 1, op |-> "validate_connectivity",
                        initialized |-> outcome,
                        returned |-> CASE outcome = "raised" -> "raised"
                                      [] outcome = "False" -> "components_initialized: False"
                                      [] OTHER -> "connectivity_results" ]

\* get_processing_summary(): the error of its query is caught.
GetProcessingSummary ==
    /\ pc = "idle" /\ metodo.n < MaxCalls
    /\ MetodoFrame /\ UNCHANGED cfg
    /\ \E outcome \in {"True", "False", "raised"}, failing \in BOOLEAN :
         /\ initialize_components(outcome)
         /\ outcome # "True" => ~failing
         /\ metodo' = [ n |-> metodo.n + 1, op |-> "get_processing_summary",
                        initialized |-> outcome,
                        returned |-> CASE outcome = "raised" -> "raised"
                                      [] outcome = "False" -> "error"
                                      [] failing -> "error"
                                      [] extract_calendario(cfg, FALSE) = <<>> -> "error"
                                      [] OTHER -> "summary" ]

\* run_data_preview(limit): batch_size is reduced inside the try block and
\* restored after the transformation; the except clause returns {}.
RunDataPreview ==
    /\ pc = "idle" /\ metodo.n < MaxCalls
    /\ MetodoFrame
    /\ \E outcome \in {"True", "False", "raised"} :
         /\ initialize_components(outcome)
         /\ IF outcome # "True"
            THEN /\ metodo' = [ n |-> metodo.n + 1, op |-> "run_data_preview",
                                initialized |-> outcome,
                                returned |-> IF outcome = "raised" THEN "raised" ELSE "{}" ]
                 /\ UNCHANGED cfg
            ELSE LET original_batch_size == cfg.batch_size
                     reduced == [cfg EXCEPT !.batch_size = Min(PreviewLimit, original_batch_size)]
                 IN  \E faults \in SUBSET ExtractQueries, failing \in BOOLEAN :
                       LET raw_data_1 == extract_all_data(reduced, env, faults)
                           raises == \/ ~comp'._transformer
                                     \/ failing /\ ~AllEmptyRaw(raw_data_1)
                       IN  /\ cfg' = IF raises THEN reduced
                                     ELSE [reduced EXCEPT !.batch_size = original_batch_size]
                           /\ metodo' = [ n |-> metodo.n + 1, op |-> "run_data_preview",
                                          initialized |-> outcome,
                                          returned |-> IF raises THEN "{}"
                                                       ELSE "preview_data" ]

NextMetodos ==
    \/ ValidateConnectivity
    \/ GetProcessingSummary
    \/ RunDataPreview

SpecMetodos == Init /\ [][NextMetodos]_vars

\* ------------------------------------------ business days, called on their own

Orchestrator == << cfg, env, comp, pc, runNo, nFaults, calls, fallos, raw_data,
                   transformed_data, transform_summary, quality_report,
                   load_results, loadIdx, sink, views, described, result,
                   prevSink, prevLoad >>

\* An orchestrator on the default configuration that is never run.
Unused ==
    /\ cfg = DefaultConfig
    /\ env = [ asignacion |-> <<>>, gest |-> [ch \in Canales |-> {}],
               comparable |-> FALSE, importable |-> TRUE ]
    /\ Idle

\* BusinessDaysProcessor.__init__ for country PE, and the date the functions
\* are about to be called on.
InitCalendar ==
    /\ Unused
    /\ include_saturdays \in BOOLEAN
    /\ \E d \in Fechas : llamada = [NoLlamada EXCEPT !.arg = d]
    /\ NoEventos
    /\ NoDimensiones
    /\ metodo = NoMetodo

Llamada(op, n, ret) == [op |-> op, arg |-> llamada.arg, n |-> n, ret |-> ret]
Ret(habil, numero, fecha, dias) ==
    [habil |-> habil, numero |-> numero, fecha |-> fecha, dias |-> dias,
     puede_comparar |-> FALSE]

IsBusinessDay ==
    /\ llamada.op = Null
    /\ llamada' = Llamada("is_business_day", 0,
                          Ret(is_business_day(include_saturdays, llamada.arg),
                              0, NoDate, <<>>))
    /\ UNCHANGED << include_saturdays, Transformacion, Dimensiones, metodo, Orchestrator >>

CalculateBusinessDayOfMonth ==
    /\ llamada.op = Null
    /\ llamada' = Llamada("calculate_business_day_of_month", 0,
                          Ret(FALSE,
                              calculate_business_day_of_month(include_saturdays, llamada.arg),
                              NoDate, <<>>))
    /\ UNCHANGED << include_saturdays, Transformacion, Dimensiones, metodo, Orchestrator >>

GetSameBusinessDayPreviousMonth ==
    /\ llamada.op = Null
    /\ llamada' = Llamada("get_same_business_day_previous_month", 0,
                          Ret(FALSE, 0,
                              get_same_business_day_previous_month(include_saturdays,
                                                                   llamada.arg),
                              <<>>))
    /\ UNCHANGED << include_saturdays, Transformacion, Dimensiones, metodo, Orchestrator >>

\* The functions of (year, month) are called with those of a first of month.
GetNthBusinessDayOfMonth ==
    /\ llamada.op = Null
    /\ llamada.arg.day = 1
    /\ \E n \in 0..MaxNth :
         llamada' = Llamada("get_nth_business_day_of_month", n,
                            Ret(FALSE, 0,
                                get_nth_business_day_of_month(include_saturdays,
                                    llamada.arg.year, llamada.arg.month, n),
                                <<>>))
    /\ UNCHANGED << include_saturdays, Transformacion, Dimensiones, metodo, Orchestrator >>

GetLastBusinessDayOfMonth ==
    /\ llamada.op = Null
    /\ llamada.arg.day = 1
    /\ llamada' = Llamada("get_last_business_day_of_month", 0,
                          Ret(FALSE, 0,
                              get_last_business_day_of_month(include_saturdays,
                                  llamada.arg.year, llamada.arg.month),
                              <<>>))
    /\ UNCHANGED << include_saturdays, Transformacion, Dimensiones, metodo, Orchestrator >>

GetBusinessDaysInMonth ==
    /\ llamada.op = Null
    /\ llamada.arg.day = 1
    /\ llamada' = Llamada("get_business_days_in_month", 0,
                          Ret(FALSE, 0, NoDate,
                              get_business_days_in_month(include_saturdays,
                                  llamada.arg.year, llamada.arg.month)))
    /\ UNCHANGED << include_saturdays, Transformacion, Dimensiones, metodo, Orchestrator >>

GetComparisonPeriodsInfo ==
    /\ llamada.op = Null
    /\ LET info == get_comparison_periods_info(include_saturdays, llamada.arg)
       IN  llamada' = Llamada("get_comparison_periods_info", 0,
                              [ Ret(info.es_dia_habil, info.dia_habil_del_mes,
                                    info.fecha_comparacion_mes_anterior,
                                    info.dias_habiles_mes_actual)
                                EXCEPT !.puede_comparar = info.puede_comparar ])
    /\ UNCHANGED << include_saturdays, Transformacion, Dimensiones, metodo, Orchestrator >>

NextCalendar ==
    \/ IsBusinessDay
    \/ CalculateBusinessDayOfMonth
    \/ GetNthBusinessDayOfMonth
    \/ GetSameBusinessDayPreviousMonth
    \/ GetLastBusinessDayOfMonth
    \/ GetBusinessDaysInMonth
    \/ GetComparisonPeriodsInfo

SpecCalendar == InitCalendar /\ [][NextCalendar]_vars

\* ------------------------------------------- transformer, called on its own

\* A CobranzaTransformer, the frames of the two interaction queries and the
\* base dimensions: of all the customers, or of the first only.
InitTransformer ==
    /\ Unused
    /\ include_saturdays = FALSE
    /\ llamada = NoLlamada
    /\ \E k \in 0..MaxEventos :
         /\ df_voicebot \in Frames(k)
         /\ df_mibotair \in Frames(MaxEventos - k)
    /\ df_base \in { BaseDimensions(Clientes), BaseDimensions({1}) }
    /\ FECHA_SERVICIO \in ServiceDates
    /\ NoDimensiones
    /\ metodo = NoMetodo
    /\ df_all_gestiones = {}
    /\ df_agregada = {}
    /\ df_comparativas = {}
    /\ quality_issues = {}
    /\ tpc = "process"

\* Steps 2 to 4 of transform_all_data; with no enriched row it returns {}.
ProcessGestiones ==
    /\ tpc = "process"
    /\ df_all_gestiones' = combine_gestiones(df_voicebot, df_mibotair, df_base)
    /\ tpc' = IF df_all_gestiones' = {} THEN "done" ELSE "aggregate"
    /\ UNCHANGED << df_voicebot, df_mibotair, df_agregada, df_base, FECHA_SERVICIO,
                    df_comparativas, quality_issues, include_saturdays, llamada,
                    Dimensiones, metodo, Orchestrator >>

\* Step 5 of transform_all_data.
AggregateByDimensions ==
    /\ tpc = "aggregate"
    /\ df_agregada' = grouped_agg(df_all_gestiones)
    /\ tpc' = "compare"
    /\ UNCHANGED << df_voicebot, df_mibotair, df_all_gestiones, df_base, FECHA_SERVICIO,
                    df_comparativas, quality_issues, include_saturdays, llamada,
                    Dimensiones, metodo, Orchestrator >>

\* Step 6 of transform_all_data.
CreatePeriodComparisons ==
    /\ tpc = "compare"
    /\ df_comparativas' = df_comparisons(df_agregada, include_saturdays, FECHA_SERVICIO)
    /\ tpc' = "quality"
    /\ UNCHANGED << df_voicebot, df_mibotair, df_all_gestiones, df_agregada, df_base,
                    FECHA_SERVICIO, quality_issues, include_saturdays, llamada,
                    Dimensiones, metodo, Orchestrator >>

\* validate_data_quality on the transformed tables, for the table agregada.
ValidateAgregada ==
    /\ tpc = "quality"
    /\ quality_issues' = issues(df_agregada)
    /\ tpc' = "done"
    /\ UNCHANGED << df_voicebot, df_mibotair, df_all_gestiones, df_agregada, df_base,
                    FECHA_SERVICIO, df_comparativas, include_saturdays, llamada,
                    Dimensiones, metodo, Orchestrator >>

NextTransformer ==
    \/ ProcessGestiones
    \/ AggregateByDimensions
    \/ CreatePeriodComparisons
    \/ ValidateAgregada

SpecTransformer == InitTransformer /\ [][NextTransformer]_vars

\* --------------------------------------- base dimensions, called on their own

\* The file names of the assignment rows: parts separated by underscores, or
\* a missing name.
Archivos ==
    { NaN,
      Value(<<"Cartera", "Agencia", "Cobranding", "Gestion", "Temprana", "20250617.txt">>),
      Value(<<"Cartera", "Agencia", "Cobranding", "Gestion", "CF", "ANN", "20250617.txt">>),
      Value(<<"Cartera", "Agencia", "Cobranding", "Gestion", "AN", "20250617.txt">>),
      Value(<<"Cartera", "Agencia", "Cobranding", "20250617.txt">>),
      Value(<<"Other", "File", "Name.txt">>),
      Value(<<"cuota", "fija", "20250617.txt">>),
      Value(<<"Altas", "Nuevas", "20250617.txt">>),
      Value(<<"Altas", "Nuevas", "CF", "ANN", "20250617.txt">>),
      Value(<<"AN", "Gestion", "20250617.txt">>),
      Value(<<"Gestion", "AN">>) }

\* The values of tramo_gestion, Null for a missing one.
Tramos == { "AL VCTO", "ENTRE 4 Y 15D", "TEMPRANA", "TARDIA", "OTHER", Null }

\* The debt and payment frames: empty, a record of the row's account, a record
\* of another account.
Deudas == { <<>>, << [cod_cuenta |-> 1, monto_exigible |-> 50] >>,
            << [cod_cuenta |-> 2, monto_exigible |-> 50] >> }
Pagos == { <<>>, << [cod_sistema |-> 1, monto_cancelado |-> 30] >>,
           << [cod_sistema |-> 2, monto_cancelado |-> 30] >> }

\* A CobranzaTransformer, one assignment row and the financial frames.
InitDimensiones ==
    /\ Unused
    /\ include_saturdays = FALSE
    /\ llamada = NoLlamada
    /\ NoEventos
    /\ metodo = NoMetodo
    /\ asignacion_row \in [ archivo : Archivos, tramo_gestion : Tramos,
                             fraccionamiento : {"SI", "NO"}, cuenta : {1} ]
    /\ df_trandeuda \in Deudas
    /\ df_pagos \in Pagos
    /\ df_base_row = [archivo |-> NaN, cuenta |-> 0, CARTERA |-> Null, OBJ_RECUPERO |-> 0]
    /\ df_base_cartera = [raised |-> Null, df |-> [CARTERA |-> Null, total_cod_lunas |-> 0]]
    /\ retorno = [op |-> Null, cartera |-> Null, objetivo |-> 0]
    /\ dpc = "start"

ExtractCarteraType ==
    /\ dpc = "start"
    /\ retorno' = [ op |-> "_extract_cartera_type",
                    cartera |-> extract_cartera_type(asignacion_row.archivo),
                    objetivo |-> 0 ]
    /\ dpc' = "returned"
    /\ UNCHANGED << asignacion_row, df_trandeuda, df_pagos, df_base_row, df_base_cartera,
                    include_saturdays, llamada, Transformacion, metodo, Orchestrator >>

CalculateRecoveryObjective ==
    /\ dpc = "start"
    /\ retorno' = [ op |-> "_calculate_recovery_objective",
                    cartera |-> Null,
                    objetivo |-> calculate_recovery_objective(asignacion_row.tramo_gestion) ]
    /\ dpc' = "returned"
    /\ UNCHANGED << asignacion_row, df_trandeuda, df_pagos, df_base_row, df_base_cartera,
                    include_saturdays, llamada, Transformacion, metodo, Orchestrator >>

\* Step 1 of transform_all_data.
CreateBaseDimensions ==
    /\ dpc = "start"
    /\ df_base_row' = base_dimensions_row(asignacion_row)
    /\ dpc' = "base"
    /\ UNCHANGED << asignacion_row, df_trandeuda, df_pagos, df_base_cartera, retorno,
                    include_saturdays, llamada, Transformacion, metodo, Orchestrator >>

\* Step 8 of transform_all_data.
CreateBasePortfolioMetrics ==
    /\ dpc = "base"
    /\ df_base_cartera' = create_base_portfolio_metrics_row(df_base_row, df_trandeuda, df_pagos)
    /\ dpc' = "done"
    /\ UNCHANGED << asignacion_row, df_trandeuda, df_pagos, df_base_row, retorno,
                    include_saturdays, llamada, Transformacion, metodo, Orchestrator >>

NextDimensiones ==
    \/ ExtractCarteraType
    \/ CalculateRecoveryObjective
    \/ CreateBaseDimensions
    \/ CreateBasePortfolioMetrics

SpecDimensiones == InitDimensiones /\ [][NextDimensiones]_vars

\* ------------------------------------------------------------------ claims

\* The rows of table type t that the target month's processing wrote for
\* period p.
RowsOfPeriod(t, p) ==
    { r \in BagToSet(sink[t]) : r.mes = cfg.mes_vigencia /\ r.fila.archivo = p }

\* The periods whose rows made a step of the current run raise.
FailedPeriods == { f.periodo : f \in { g \in fallos : g.periodo # 0 } }

\* C1: when the rows of one period make the transformation raise, the rows of
\* every other period of the run are in the sink when run() has returned.
C1_OtherPeriodsLoaded ==
    (pc = "done" /\ ~cfg.dry_run)
        => \A f \in fallos :
             (f.paso = "transform" /\ f.periodo # 0)
                => \A p \in PeriodsOf(raw_data) \ {f.periodo} :
                     RowsOfPeriod("base_cartera", p) # {}

\* C2: the result of a run in which a period failed carries the counts of
\* periods processed and failed, has success = false, and the rows of every
\* period that did not fail are in every output table that has rows per period.
C2_FailedPeriodsReported ==
    (pc = "done" /\ ~cfg.dry_run /\ FailedPeriods # {})
        => /\ result.success = FALSE
           /\ {"files_processed", "files_failed"} \subseteq DOMAIN result
           /\ \A p \in PeriodsOf(raw_data) \ FailedPeriods :
                \A t \in {"agregada", "base_cartera"} : RowsOfPeriod(t, p) # {}

\* C3: with overwrite enabled no row outside the target month's partition is
\* ever removed from an output table.
C3_OtherMonthsKept ==
    cfg.overwrite_tables
        => \A t \in TableTypes :
             \A r \in BagToSet(SinkInit[t]) :
                r.mes # cfg.mes_vigencia => CopiesIn(r, sink[t]) >= CopiesIn(r, SinkInit[t])

\* The run before the current one loaded every table it had rows for.
PrevRunLoaded ==
    /\ \E t \in TableTypes : prevLoad[t] = "SUCCESS"
    /\ \A t \in TableTypes : prevLoad[t] # "ERROR"

\* C4: with overwrite enabled, from the end of a run that loaded its tables on,
\* a further run on the same source leaves every output table with the row
\* count it had, and no row is in a table twice.
C4_RerunKeepsRowCounts ==
    (runNo >= 2 /\ cfg.overwrite_tables /\ PrevRunLoaded)
        => \A t \in TableTypes :
             /\ BagCardinality(sink[t]) = BagCardinality(prevSink[t])
             /\ \A r \in BagToSet(sink[t]) : CopiesIn(r, sink[t]) = 1

\* C4's case: a second run has loaded all four tables over those of the first.
C4_Witness ==
    /\ runNo = 2 /\ pc = "done" /\ cfg.overwrite_tables
    /\ \A t \in TableTypes : prevLoad[t] = "SUCCESS" /\ load_results[t] = "SUCCESS"
    /\ \A t \in TableTypes : \E r \in BagToSet(sink[t]) : r.mes = cfg.mes_vigencia

\* C5: whatever failed during a run, run() returns success = false,
\* records_processed = 0, no output table and an error message.
C5_FailureResult ==
    (pc = "done" /\ fallos # {})
        => /\ result.success = FALSE
           /\ result.records_processed = 0
           /\ result.output_tables = {}
           /\ result.error_message # Null

\* The steps of _run_real_etl up to the load ran and none of them failed.
StepsCompleted ==
    /\ pc = "done"
    /\ \E i \in 1..Len(calls) : calls[i] = "validate_data_quality"
    /\ { f.paso : f \in fallos } \subseteq {"optimize", "metrics"}

\* C6: a run whose steps all completed returns success = true with
\* records_processed > 0 and the tables whose load outcome was SUCCESS or
\* DRY-RUN, at least one.
C6_SuccessResult ==
    StepsCompleted
        => /\ result.success = TRUE
           /\ result.records_processed > 0
           /\ result.output_tables =
                { t \in TableTypes : load_results[t] \in {"SUCCESS", "DRY-RUN"} }
           /\ result.output_tables # {}

\* C7: under a configuration whose month is no month, whose status is not
\* allowed or whose country is unknown, no component is ever constructed, no
\* collaborator is ever called, and run() returns a failure.
C7_InvalidConfigRejected ==
    ( \/ ~IsCalendarMonth(cfg.mes_vigencia)
      \/ cfg.estado_vigencia \notin {"abierto", "finalizado"}
      \/ cfg.country_code \notin KnownCountries )
        => /\ comp = NoComponents
           /\ calls = <<>>
           /\ (pc = "done" => result.success = FALSE)

WriteCalls == {"load_table_from_dataframe", "create_or_replace_view", "update_table"}

\* C8: a dry run sends nothing to the sink (no load, no view, no description),
\* and once it has reached the load it has extracted, transformed and
\* validated, and reports the row counts of the transformation of what was
\* extracted, which do not depend on dry_run.
C8_DryRunWritesNothing ==
    cfg.dry_run
        => /\ sink = SinkInit /\ views = {} /\ described = {}
           /\ \A i \in 1..Len(calls) : calls[i] \notin WriteCalls
           /\ pc \in {"load", "views", "metrics"}
                => /\ calls = << "BigQueryExtractor", "BusinessDaysProcessor",
                                 "CobranzaTransformer", "BigQueryLoader" >>
                                 \o << "test_connectivity", "extract_all_data",
                                       "transform_all_data", "validate_data_quality" >>
                      \/ calls = << "test_connectivity", "extract_all_data",
                                    "transform_all_data", "validate_data_quality" >>
                   /\ transform_summary = Summary(transform_all_data(raw_data, env.comparable))
                   /\ \A t \in TableTypes :
                        quality_report[t].row_count = transform_summary[t]
                   /\ \E t \in TableTypes : transform_summary[t] > 0

\* C8's case: a dry run at the end of load_all_tables, every table that has
\* rows simulated.
C8_Witness ==
    /\ cfg.dry_run /\ pc = "metrics"
    /\ \A t \in TableTypes : load_results[t] = "DRY-RUN"

\* C9: when the components cannot be imported the run does not take the mock
\* path and does not return success.
C9_NoMockFallback ==
    ~env.importable => (pc # "mock" /\ result.success = FALSE)

\* C10: once the extraction has returned data, with no query having failed,
\* every customer id of the assignments was asked for in the interaction
\* queries and every event of such a customer was extracted.
C10_AllCustomersQueried ==
    (pc = "transform" /\ { f \in fallos : f.paso = "extract" } = {})
        => LET ids == { raw_data.asignacion[i].cod_luna : i \in 1..Len(raw_data.asignacion) }
           IN  /\ Range(raw_data.consultados) = ids
               /\ raw_data.voicebot = env.gest["BOT"] \cap ids
               /\ raw_data.mibotair = env.gest["HUMANO"] \cap ids

\* C11: a run whose extracted interaction streams are both empty, no
\* collaborator having raised, does not fail at the transformation: it has zero
\* aggregate rows and the portfolio-base rows of the assignments.
C11_EmptyInteractionsNotFailure ==
    ( /\ nFaults = 0
      /\ raw_data.asignacion # <<>>
      /\ raw_data.voicebot = {} /\ raw_data.mibotair = {}
      /\ \E i \in 1..Len(calls) : calls[i] = "transform_all_data" )
        => /\ \A f \in fallos : f.paso # "transform"
           /\ transformed_data["agregada"] = {}
           /\ transformed_data["base_cartera"] # {}

\* The dates of a month, and those of them that are business days.
MonthDates(y, m) == { Date(y, m, d) : d \in 1..DaysInMonth(y, m) }
BusinessDaysOf(y, m) == { d \in MonthDates(y, m) : is_business_day(include_saturdays, d) }

\* The month before the month of d.
PrevYear(d) == IF d.month = 1 THEN d.year - 1 ELSE d.year
PrevMonth(d) == IF d.month = 1 THEN 12 ELSE d.month - 1

\* C12: is_business_day is false on a Sunday, false on a Saturday when
\* include_saturdays is false, false on a holiday whatever its weekday, and
\* true otherwise.
C12_IsBusinessDay ==
    llamada.op = "is_business_day"
        => llamada.ret.habil =
             ~ \/ weekday(llamada.arg) = 6
               \/ weekday(llamada.arg) = 5 /\ ~include_saturdays
               \/ InHolidaysCalendar(llamada.arg)

C16_AlignmentRoundTrip ==
    ( /\ llamada.op = "get_same_business_day_previous_month"
      /\ is_business_day(include_saturdays, llamada.arg)
      /\ Cardinality(BusinessDaysOf(PrevYear(llamada.arg), PrevMonth(llamada.arg)))
           >= calculate_business_day_of_month(include_saturdays, llamada.arg) )
        => calculate_business_day_of_month(include_saturdays, llamada.ret.fecha)
             = calculate_business_day_of_month(include_saturdays, llamada.arg)

\* C16's case: a business day of January mapped into December of the year
\* before.
C16_Witness ==
    /\ llamada.op = "get_same_business_day_previous_month"
    /\ llamada.arg.month = 1
    /\ llamada.ret.fecha.year = llamada.arg.year - 1
    /\ llamada.ret.fecha.month = 12
    /\ calculate_business_day_of_month(include_saturdays, llamada.arg) > 1

\* The rows of df_agregada of one channel.
RowsOfCanal(canal) == { r \in df_agregada : r.key.CANAL = canal }

\* C17: every row produced by aggregate_by_dimensions has
\* clientes_unicos_contactados <= total_interacciones, contactos_efectivos <=
\* total_interacciones and total_interacciones >= 1, whatever the joined events.
C17_AggregateRowBounds ==
    \A r \in df_agregada :
        /\ r.clientes_unicos_contactados <= r.total_interacciones
        /\ r.contactos_efectivos <= r.total_interacciones
        /\ r.total_interacciones >= 1

\* The aggregation has produced a row of two effective events of two
\* customers next to a row of one event without effective contact.
C17_Witness ==
    /\ tpc = "done"
    /\ \E r \in df_agregada :
         /\ r.total_interacciones = 2
         /\ r.clientes_unicos_contactados = 2
         /\ r.contactos_efectivos = 2
    /\ \E r \in df_agregada :
         /\ r.total_interacciones = 1
         /\ r.contactos_efectivos = 0

\* The events of df_all_gestiones that share the dims values of f.
SameTuple(f, dims) == { g \in df_all_gestiones : \A c \in dims : g.row[c] = f.row[c] }

\* C18: for each tracked dimension tuple and each of its values, exactly one
\* event among all events of the run, both channels together, is flagged
\* first-time, so two events sharing the minimal timestamp are never both
\* flagged.
C18_ExactlyOneFirstTime ==
    \A f \in df_all_gestiones :
        /\ Cardinality({ g \in SameTuple(f, {"cliente"}) :
                           g.es_primera_vez_cliente }) = 1
        /\ Cardinality({ g \in SameTuple(f, {"cliente", "CARTERA", "CANAL"}) :
                           g.es_primera_vez_cliente_cartera_canal }) = 1
        /\ Cardinality({ g \in SameTuple(f, {"cliente", "CARTERA", "CANAL", "OPERADOR"}) :
                           g.es_primera_vez_cliente_cartera_canal_operador }) = 1
        /\ Cardinality({ g \in SameTuple(f, {"cliente", "CANAL"}) :
                           g.es_primera_vez_cliente_canal }) = 1
        /\ Cardinality({ g \in SameTuple(f, {"cliente", "GRUPO_RESPUESTA"}) :
                           g.es_primera_vez_cliente_grupo_respuesta }) = 1

\* C19: an event is flagged es_primer_contacto_efectivo exactly when its
\* outcome is an effective contact and no effective contact of its customer is
\* earlier; an event with another outcome is never flagged.
C19_FirstEffectiveContact ==
    \A f \in df_all_gestiones :
        f.es_primer_contacto_efectivo <=>
            /\ IsEffective(f.row.management)
            /\ \A g \in df_all_gestiones :
                   (g.row.cliente = f.row.cliente /\ IsEffective(g.row.management))
                       => f.row.date <= g.row.date

\* The frames of the worked example: customer 1 of portfolio A, BOT events at
\* 10:00 and 14:00 without contact, a HUMANO event at 11:00 with an effective
\* contact.
WorkedExample ==
    /\ df_voicebot = << Evento(1, 14, "NO_CONTESTA"), Evento(1, 10, "NO_CONTESTA") >>
    /\ df_mibotair = << Evento(1, 11, "CONTACTO_EFECTIVO") >>

\* C20: for the worked example the BOT row has total_interacciones = 2,
\* clientes_unicos_contactados = 1, contactos_efectivos = 0 and
\* primera_vez_contactados = 1, and the HUMANO row has total_interacciones = 1,
\* contactos_efectivos = 1 and primera_vez_efectivos = 1.
C20_WorkedExample ==
    (WorkedExample /\ tpc = "done") =>
        /\ Cardinality(RowsOfCanal("BOT")) = 1
        /\ \A r \in RowsOfCanal("BOT") :
               /\ r.key.CARTERA = "A"
               /\ r.total_interacciones = 2
               /\ r.clientes_unicos_contactados = 1
               /\ r.contactos_efectivos = 0
               /\ r.primera_vez_contactados = 1
        /\ Cardinality(RowsOfCanal("HUMANO")) = 1
        /\ \A r \in RowsOfCanal("HUMANO") :
               /\ r.key.CARTERA = "A"
               /\ r.total_interacciones = 1
               /\ r.contactos_efectivos = 1
               /\ r.primera_vez_efectivos = 1

\* The worked example has been transformed and aggregated.
C20_Witness ==
    /\ WorkedExample
    /\ tpc = "done"
    /\ df_agregada # {}

\* C21: create_period_comparisons emits exactly one comparison row per
\* aggregate row; a row whose service date has no same business day of the
\* previous month is kept, never dropped.
C21_OneComparisonPerAggregateRow ==
    tpc \in {"quality", "done"} =>
        \A r \in df_agregada : Cardinality({ c \in df_comparativas : c.row = r }) = 1

C24_UnmatchedEventsReported ==
    (tpc = "done"
        /\ Len(df_voicebot) + Len(df_mibotair) > Cardinality(df_all_gestiones))
    => quality_issues # {}

\* C25: a BOT row has monto_total_comprometido = 0 and cantidad_compromisos =
\* 0; the cantidad_compromisos of a HUMANO row counts the events that carry a
\* committed amount.
C25_CommitmentsByChannel ==
    \A r \in df_agregada :
        /\ r.key.CANAL = "BOT" =>
               r.monto_total_comprometido = 0 /\ r.cantidad_compromisos = 0
        /\ r.key.CANAL = "HUMANO" =>
               r.cantidad_compromisos =
                   Cardinality({ f \in df_all_gestiones :
                                   GroupKey(f) = r.key /\ ~monto_compromiso(f.row).isna })

\* C23.  _create_base_portfolio_metrics completes without an error for every
\* combination of empty and non-empty debt and payment frames, and the
\* portfolio group it returns carries a debt amount and a payment amount,
\* zero when no record matches the group's accounts.
C23_PortfolioAmountsNeverNull ==
    dpc = "done" =>
        /\ df_base_cartera.raised = Null
        /\ {"monto_exigible", "monto_cancelado"} \subseteq DOMAIN df_base_cartera.df
        /\ df_base_cartera.df.monto_exigible
               = sum_of(df_trandeuda, "cod_cuenta", "monto_exigible", asignacion_row.cuenta)
        /\ df_base_cartera.df.monto_cancelado
               = sum_of(df_pagos, "cod_sistema", "monto_cancelado", asignacion_row.cuenta)

\* The markers of the portfolio types in their fixed order, each as the
\* alternatives that stand for the type.
Markers ==
    << [type |-> "TEMPRANA", any |-> { <<"TEMPRANA">> }],
       [type |-> "CUOTA_FIJA_ANUAL", any |-> { <<"CF", "ANN">>, <<"CUOTA", "FIJA">> }],
       [type |-> "ALTAS_NUEVAS", any |-> { <<"", "AN", "">>, <<"ALTAS", "NUEVAS">> }],
       [type |-> "COBRANDING", any |-> { <<"COBRANDING">> }] >>

\* The type of the first marker that occurs in the upper-cased file name,
\* OTRAS when none occurs or the name is missing.
portfolio_type(filename) ==
    LET name == IF filename.isna THEN <<>>
                ELSE [i \in 1..Len(filename.val) |-> upper(filename.val[i])]
        found == { i \in 1..Len(Markers) : \E m \in Markers[i].any : Contains(name, m) }
    IN  IF found = {} THEN "OTRAS"
        ELSE Markers[CHOOSE i \in found : \A j \in found : i <= j].type

\* C26.  _extract_cartera_type returns the type of the first marker of the
\* file name, and the CARTERA of the base-dimension record that
\* create_base_dimensions produces for the row equals that type.
C26_CarteraIsPortfolioType ==
    /\ retorno.op = "_extract_cartera_type"
           => retorno.cartera = portfolio_type(asignacion_row.archivo)
    /\ dpc \in {"base", "done"}
           => df_base_row.CARTERA = portfolio_type(asignacion_row.archivo)

\* C27.  _calculate_recovery_objective returns 0.15 for 'AL VCTO', 0.25 for
\* 'ENTRE 4 Y 15D', 0.25 for 'TEMPRANA', and 0.20 for every other segment
\* and for a missing one (in hundredths).
C27_RecoveryObjectiveTable ==
    retorno.op = "_calculate_recovery_objective" =>
        retorno.objetivo =
            ( CASE asignacion_row.tramo_gestion = "AL VCTO" -> 15
                [] asignacion_row.tramo_gestion = "ENTRE 4 Y 15D" -> 25
                [] asignacion_row.tramo_gestion = "TEMPRANA" -> 25
                [] OTHER -> 20 )

\* C29.  Whenever _initialize_components returns True to a method of the
\* orchestrator, the four components _extractor, _business_days,
\* _transformer and _loader are all set, also after an earlier call that
\* raised part-way through the initialisation.
C29_AllComponentsAfterTrue ==
    metodo.initialized = "True" =>
        comp._extractor /\ comp._business_days /\ comp._transformer /\ comp._loader

\* C30.  A call of run_data_preview leaves config.batch_size as it was before
\* the call, whatever it returns.
C30_PreviewKeepsBatchSize ==
    [][ metodo'.n = metodo.n + 1 /\ metodo'.op = "run_data_preview"
            => cfg'.batch_size = cfg.batch_size ]_vars

\* The step of _run_real_etl a collaborator call belongs to, 0 for the
\* constructors.
StepOf(call) ==
    CASE call = "test_connectivity" -> 1
      [] call = "extract_all_data" -> 2
      [] call = "transform_all_data" -> 3
      [] call = "validate_data_quality" -> 4
      [] call \in {"load_table_from_dataframe", "create_or_replace_view"} -> 5
      [] call = "update_table" -> 6
      [] OTHER -> 0

\* The step whose failure or lack of data ended the run, 0 when none of the
\* first four did.
FailedAt ==
    CASE result.error_message = "Error de conectividad con BigQuery" -> 1
      [] result.error_message = "No se encontraron datos para procesar" -> 2
      [] result.error_message \in
            { "transform_all_data failed", "La transformacion no genero datos validos",
              "'NoneType' object has no attribute 'transform_all_data'" } -> 3
      [] result.error_message \in
            { "Problemas criticos de calidad",
              "'NoneType' object has no attribute 'validate_data_quality'" } -> 4
      [] OTHER -> 0

\* C28.  The collaborator calls of a real run come in the order connectivity
\* test, extract, transform, quality validation, load, Looker optimisations,
\* none without the step before it; a step that fails or yields no data is
\* the last one of the run and the sink is left as it was; a quality status
\* FAIL is followed by no load unless dry_run; the optimisations are called
\* only when dry_run is false.
C28_StepsInOrder ==
    LET steps == { StepOf(calls[i]) : i \in 1..Len(calls) }
    IN  /\ \A i, j \in 1..Len(calls) : i < j => StepOf(calls[i]) <= StepOf(calls[j])
        /\ \A k \in steps : k >= 2 => k - 1 \in steps
        /\ 3 \in steps => raw_data # RawEmpty
        /\ 4 \in steps => transformed_data # TransformedEmpty
        /\ FailedAt > 0 => /\ pc = "done"
                           /\ \A k \in steps : k <= FailedAt
                           /\ sink = prevSink
        /\ (\E t \in TableTypes : quality_report[t].status = "FAIL") /\ ~cfg.dry_run
               => steps \cap {5, 6} = {}
        /\ 6 \in steps \/ pc \in {"descriptions", "optimize"} => ~cfg.dry_run

\* C28 witness: the second run, after a first one that wrote to the sink,
\* extracted no data and ended before the transformation.
C28_Witness ==
    /\ runNo = 2 /\ pc = "done"
    /\ prevSink # SinkInit
    /\ FailedAt = 2
    /\ calls = <<"test_connectivity", "extract_all_data">>

====
